---- MODULE Spec2Model ----
(***************************************************************************)
(* Model of integration/rootfs/setuid-sploit.c: main() calls setuid(0),    *)
(* then execv(argv[1], &argv[1]); either failure is reported with perror   *)
(* and ends in abort().  One action per statement of main.                 *)
(*                                                                         *)
(* The operating system is modelled as far as the two calls observe it:    *)
(* the credentials the process starts with (decided by the binary's owner, *)
(* its setuid bit, whether the mount honours the bit, and the invoking     *)
(* user), whether the sandbox refuses setuid outright, and the state of    *)
(* the files a path may name.                                              *)
(***************************************************************************)
EXTENDS Integers, Sequences, FiniteSets, TLC

\* ------------------------------------------------------------ bounds
\* Largest argc explored.
MaxArgc == 3
\* Cap on the recorded system-call history (never binding for main as written).
MaxCalls == 4

\* ------------------------------------------------------------ values
\* The uid main asks for: setuid(0).
ROOT == 0
\* User ids a process or a file owner may have.
Uids == {ROOT, 1000}
\* The null pointer that terminates argv (argv[argc] == NULL).
NULL == "(null)"
\* Files a path may name, and the strings an argument may be.
Paths == {"/bin/echo", "/bin/sh"}
Strings == Paths \cup {"hello"}
FileStates == {"exec", "noexec", "absent"}
\* The program main belongs to.
SELF == "setuid-sploit"

\* Sequences over S of length 0..n.
RECURSIVE SeqsUpTo(_, _)
SeqsUpTo(S, n) ==
  IF n = 0 THEN {<<>>}
  ELSE LET shorter == SeqsUpTo(S, n - 1)
       IN shorter \cup {Append(s, x) : s \in {t \in shorter : Len(t) = n - 1}, x \in S}

\* Argument vectors main may be started with (argc = Len, argv[argc] = NULL).
ArgVectors == SeqsUpTo(Strings, MaxArgc)

VARIABLES
  pc,        \* the statement of main about to run, or "done"
  argv,      \* main's argv[0..argc-1], as given at process start
  env,       \* the environment the process was started in (never changes)
  cred,      \* the process's credentials [ruid, euid, suid]
  errno,     \* errno as left by the last failing call
  stderr,    \* what perror has written, in order
  syscalls,  \* the system calls requested so far, in order, with their results
  image,     \* the program that owns the process: [prog, args]
  status     \* "running", "aborted" (SIGABRT), "exited" (return from main), "replaced"

vars == <<pc, argv, env, cred, errno, stderr, syscalls, image, status>>

\* ------------------------------------------------------------ the OS
\* Credentials at the start of main: exec of a setuid binary on a mount that
\* honours the bit sets the effective and saved uid to the file's owner.
StartCred(e) ==
  LET eff == IF e.setuidBit /\ ~e.nosuid THEN e.owner ELSE e.invoker
  IN [ruid |-> e.invoker, euid |-> eff, suid |-> eff]

\* setuid(uid) as the kernel performs it on credentials c; denied is a sandbox
\* policy that refuses the call outright.
SetuidResult(c, uid, denied) ==
  IF denied THEN [ret |-> -1, errno |-> "EPERM", cred |-> c]
  ELSE IF c.euid = ROOT
    THEN [ret |-> 0, errno |-> "", cred |-> [ruid |-> uid, euid |-> uid, suid |-> uid]]
  ELSE IF uid \in {c.ruid, c.suid}
    THEN [ret |-> 0, errno |-> "", cred |-> [c EXCEPT !.euid = uid]]
  ELSE [ret |-> -1, errno |-> "EPERM", cred |-> c]

FileState(fs, path) == IF path \in DOMAIN fs THEN fs[path] ELSE "absent"

\* execv(path, vec): replaces the image, or returns -1 with errno set.
ExecvResult(fs, path, vec) ==
  IF path = NULL THEN [replaced |-> FALSE, ret |-> -1, errno |-> "EFAULT"]
  ELSE IF FileState(fs, path) = "absent"
    THEN [replaced |-> FALSE, ret |-> -1, errno |-> "ENOENT"]
  ELSE IF FileState(fs, path) = "noexec"
    THEN [replaced |-> FALSE, ret |-> -1, errno |-> "EACCES"]
  ELSE [replaced |-> TRUE, ret |-> 0, errno |-> ""]

\* ------------------------------------------------------------ main's memory
\* The words of memory starting at argv[0]: argv[0..argc-1], the terminating
\* NULL, then whatever follows the array (beyond), itself null-terminated.
Memory(a, beyond) == a \o <<NULL>> \o beyond \o <<NULL>>

\* What may follow the array when main reads index i of it: nothing that
\* matters while i <= argc; any strings at all once the read is out of bounds.
BeyondChoices(a, i) ==
  IF i <= Len(a) THEN {<<>>} ELSE SeqsUpTo(Strings, MaxArgc - 1)

\* argv[i], C-indexed from 0.
ArgvAt(mem, i) == IF i + 1 <= Len(mem) THEN mem[i + 1] ELSE NULL

\* The null-terminated vector execv reads starting at &argv[i].
RECURSIVE VectorAt(_, _)
VectorAt(mem, i) ==
  IF ArgvAt(mem, i) = NULL THEN <<>>
  ELSE <<ArgvAt(mem, i)>> \o VectorAt(mem, i + 1)

\* ------------------------------------------------------------ main
\* setuid(0): the uid main asks for.
RequestedUid_Real == CHOOSE u \in Uids : u # ROOT
RequestedUid == ROOT

\* execv(argv[1], &argv[1]): the index of the path, and of the vector's start.
PathIndex == 1
VectorIndex_Two == 1 + 1
VectorIndex == 1

\* if (setuid(0) < 0) { perror; abort } -- where control goes on result ret.
AfterSetuid_Retry(ret) == IF ret < 0 THEN "setuid" ELSE "execv"
AfterSetuid(ret) == IF ret < 0 THEN "perror_setuid" ELSE "execv"

\* if (execv(...) < 0) { perror; abort } return 0;
AfterExecv_Retry(ret) == IF ret < 0 THEN "execv" ELSE "return"
AfterExecv_Positive(ret) == IF ret > 0 THEN "perror_execl" ELSE "return"
AfterExecv(ret) == IF ret < 0 THEN "perror_execl" ELSE "return"

\* The strings main hands to perror.
SetuidPrefix == "setuid"
ExecPrefix_Execv == "execv"
ExecPrefix == "execl"

\* perror(prefix): one line "prefix: <description of errno>" on stderr.
Perror_Silent(out, prefix, e) == out
Perror(out, prefix, e) == Append(out, [prefix |-> prefix, err |-> e])

\* The statement that follows each perror.
AfterPerrorSetuid_FallThrough == "execv"
AfterPerrorSetuid == "abort_setuid"
AfterPerrorExecl_FallThrough == "return"
AfterPerrorExecl == "abort_execl"

\* Control moves to statement loc.  The return 0 of line 17 has no state of
\* its own: reaching it ends main with exit status 0.
Goto(loc) ==
  IF loc = "return" THEN pc' = "done" /\ status' = "exited"
  ELSE pc' = loc /\ status' = status

\* abort(): the process dies of SIGABRT.
Abort == pc' = "done" /\ status' = "aborted"

Environments ==
  [owner : Uids, setuidBit : BOOLEAN, nosuid : BOOLEAN, invoker : Uids,
   setuidDenied : BOOLEAN, fs : [Paths -> FileStates]]

Init ==
  /\ argv \in ArgVectors
  /\ env \in Environments
  /\ cred = StartCred(env)
  /\ pc = "setuid"
  /\ errno = ""
  /\ stderr = <<>>
  /\ syscalls = <<>>
  /\ image = [prog |-> SELF, args |-> argv]
  /\ status = "running"

\* line 7: setuid(0) and the test of its result
SetuidCall ==
  /\ pc = "setuid"
  /\ Len(syscalls) < MaxCalls
  /\ LET r == SetuidResult(cred, RequestedUid, env.setuidDenied)
     IN /\ cred' = r.cred
        /\ errno' = IF r.ret < 0 THEN r.errno ELSE errno
        /\ syscalls' = Append(syscalls,
              [call |-> "setuid", path |-> NULL, vec |-> <<>>, ret |-> r.ret,
               errno |-> r.errno, euid |-> cred.euid])
        /\ Goto(AfterSetuid(r.ret))
  /\ UNCHANGED <<argv, env, stderr, image>>

\* line 8: perror("setuid")
PerrorSetuid ==
  /\ pc = "perror_setuid"
  /\ stderr' = Perror(stderr, SetuidPrefix, errno)
  /\ Goto(AfterPerrorSetuid)
  /\ UNCHANGED <<argv, env, cred, errno, syscalls, image>>

\* line 9: abort()
AbortSetuid ==
  /\ pc = "abort_setuid"
  /\ Abort
  /\ UNCHANGED <<argv, env, cred, errno, stderr, syscalls, image>>

\* line 12 (and 17): execv(argv[1], &argv[1]) and the test of its result
ExecvCall ==
  /\ pc = "execv"
  /\ Len(syscalls) < MaxCalls
  /\ LET top == IF PathIndex > VectorIndex THEN PathIndex ELSE VectorIndex
     IN \E beyond \in BeyondChoices(argv, top) :
       LET mem == Memory(argv, beyond)
           path == ArgvAt(mem, PathIndex)
           vec == VectorAt(mem, VectorIndex)
           r == ExecvResult(env.fs, path, vec)
       IN /\ syscalls' = Append(syscalls,
                [call |-> "execv", path |-> path, vec |-> vec, ret |-> r.ret,
                 errno |-> r.errno, euid |-> cred.euid])
          /\ IF r.replaced
             THEN /\ image' = [prog |-> path, args |-> vec]
                  /\ pc' = "done"
                  /\ status' = "replaced"
                  /\ errno' = errno
             ELSE /\ image' = image
                  /\ errno' = r.errno
                  /\ Goto(AfterExecv(r.ret))
  /\ UNCHANGED <<argv, env, cred, stderr>>

\* line 13: perror("execl")
PerrorExecl ==
  /\ pc = "perror_execl"
  /\ stderr' = Perror(stderr, ExecPrefix, errno)
  /\ Goto(AfterPerrorExecl)
  /\ UNCHANGED <<argv, env, cred, errno, syscalls, image>>

\* line 14: abort()
AbortExecl ==
  /\ pc = "abort_execl"
  /\ Abort
  /\ UNCHANGED <<argv, env, cred, errno, stderr, syscalls, image>>

Next ==
  \/ SetuidCall
  \/ PerrorSetuid
  \/ AbortSetuid
  \/ ExecvCall
  \/ PerrorExecl
  \/ AbortExecl

Spec == Init /\ [][Next]_vars

\* The process is scheduled until it ends: each statement of main, once
\* reached, runs.
FairSpec == Spec /\ WF_vars(Next)

\* ------------------------------------------------------------ history
\* Positions in the history of the requests of one system call.
Calls(name) == {i \in 1..Len(syscalls) : syscalls[i].call = name}
Failed(name) == {i \in Calls(name) : syscalls[i].ret < 0}
SetuidFailed == Failed("setuid") # {}
ExecvFailed == Failed("execv") # {}
\* main has ended, one way or another.
Ended == pc = "done"

\* ------------------------------------------------------------ claims

\* C1: once setuid(0) has failed, execv is never requested and no target ever
\* owns the process; control is on the report-and-abort path, and when main
\* has ended it has reported the setuid error and died of abort.
C1_FailedSetuidNeverExecs ==
  SetuidFailed =>
    /\ Calls("execv") = {}
    /\ image = [prog |-> SELF, args |-> argv]
    /\ status \in {"running", "aborted"}
    /\ pc \in {"perror_setuid", "abort_setuid", "done"}
    /\ Ended => /\ status = "aborted"
                /\ stderr = <<[prefix |-> "setuid", err |-> "EPERM"]>>

\* C1 witness: a binary without the setuid bit, run by a non-root user with a
\* target that could have been executed, has ended after its setuid failed.
C1_Witness ==
  /\ Ended
  /\ SetuidFailed
  /\ ~env.setuidBit /\ env.invoker # ROOT /\ ~env.setuidDenied
  /\ Len(argv) >= 2 /\ FileState(env.fs, argv[2]) = "exec"

\* C2: once execv has failed, main never exits normally and never runs any
\* statement but the report and the abort; when it has ended it was aborted,
\* still as the utility's own image.
C2_FailedExecAborts ==
  ExecvFailed =>
    /\ status \in {"running", "aborted"}
    /\ pc \in {"perror_execl", "abort_execl", "done"}
    /\ image.prog = SELF
    /\ Ended => status = "aborted"

\* C2 witness: main has ended with user identity 0 after a failed execv.
C2_Witness ==
  /\ Ended
  /\ ExecvFailed
  /\ cred.euid = ROOT
  /\ Len(argv) >= 2

\* C3: for an argument vector with a target path, a successful replacement
\* runs args[1] with exactly args[1..] as its argument vector: same length,
\* same elements, same order, argv[0] the target path.
C3_ArgumentsForwarded ==
  (Len(argv) >= 2 /\ status = "replaced") =>
    /\ image.prog = argv[2]
    /\ Len(image.args) = Len(argv) - 1
    /\ \A i \in 1..Len(image.args) : image.args[i] = argv[i + 1]
    /\ image.args[1] = image.prog
    /\ syscalls[Len(syscalls)].path = argv[2]

\* C3 witness: a target was started with a further argument after its path.
C3_Witness ==
  /\ status = "replaced"
  /\ Len(argv) >= 3
  /\ argv[2] # argv[3]

\* C4: whenever a target owns the process, the effective uid is 0, the
\* history is one successful setuid followed by the execv, and the execv was
\* requested with effective uid 0.  In particular a root-owned setuid binary
\* on a mount that honours the bit, in a sandbox that lets setuid through,
\* started with an executable target, ends with that target running as uid 0.
C4_TargetRunsAsRoot ==
  /\ status = "replaced" =>
       /\ cred.euid = ROOT
       /\ Len(syscalls) = 2
       /\ syscalls[1].call = "setuid" /\ syscalls[1].ret = 0
       /\ syscalls[2].call = "execv" /\ syscalls[2].euid = ROOT
  /\ ( /\ Ended
       /\ env.owner = ROOT /\ env.setuidBit /\ ~env.nosuid /\ ~env.setuidDenied
       /\ Len(argv) >= 2 /\ FileState(env.fs, argv[2]) = "exec" ) =>
       /\ status = "replaced"
       /\ image.prog = argv[2]
       /\ cred.euid = ROOT

\* C4 witness: a setuid-root binary run by a non-root user has been replaced
\* by its target.
C4_Witness ==
  /\ status = "replaced"
  /\ env.owner = ROOT /\ env.setuidBit /\ ~env.nosuid
  /\ env.invoker # ROOT

\* C5 (as claimed): with no target path supplied, main fails without ever
\* requesting a process replacement, and never succeeds.
C5_NoTargetNoExecAttempt ==
  Len(argv) = 1 =>
    /\ Calls("execv") = {}
    /\ status \in {"running", "aborted"}

\* C6: an abort is always preceded by exactly one error report: at either
\* abort statement and after it, stderr holds one line, with the prefix of
\* the call that failed and the error that call set; no more than one line is
\* ever written, and none unless a call has failed.
C6_ReportBeforeAbort ==
  /\ Len(stderr) <= 1
  /\ Len(stderr) = 1 => SetuidFailed \/ ExecvFailed
  /\ (pc \in {"abort_setuid", "abort_execl"} \/ status = "aborted") =>
       /\ Len(stderr) = 1
       /\ Len(syscalls) >= 1
       /\ LET last == syscalls[Len(syscalls)]
          IN /\ last.ret < 0
             /\ stderr[1].err = last.errno
             /\ stderr[1].err # ""
             /\ stderr[1].prefix = IF last.call = "setuid" THEN "setuid" ELSE "execl"

\* C6 witness: main has aborted after a failed execv.
C6_Witness ==
  /\ status = "aborted"
  /\ ExecvFailed

\* C7: main never ends by returning: the exit status 0 of line 17 is never
\* produced, and an ended main was either replaced by its target or aborted.
C7_NeverReturnsZero ==
  /\ status # "exited"
  /\ Ended => status \in {"replaced", "aborted"}
  /\ status = "replaced" => image.prog # SELF
  /\ status = "aborted" => image.prog = SELF

\* C7 witness: an execv has returned (with a failure) and main has ended.
C7_Witness ==
  /\ Ended
  /\ ExecvFailed
  /\ Len(argv) >= 2 /\ FileState(env.fs, argv[2]) = "noexec"

\* C8: the history of system calls is setuid once, then execv at most once
\* and only after setuid succeeded; a failed call is the last call; and once
\* main has left its first statement setuid has been requested exactly once.
C8_NoRetryNoFallback ==
  /\ Len(syscalls) <= 2
  /\ Cardinality(Calls("setuid")) <= 1
  /\ Cardinality(Calls("execv")) <= 1
  /\ Len(syscalls) >= 1 => syscalls[1].call = "setuid"
  /\ Len(syscalls) = 2 => syscalls[2].call = "execv" /\ syscalls[1].ret = 0
  /\ \A i \in 1..Len(syscalls) : syscalls[i].ret < 0 => i = Len(syscalls)
  /\ pc # "setuid" => Cardinality(Calls("setuid")) = 1

\* C8 witness: setuid succeeded, the one execv failed, and main has ended
\* without a further call.
C8_Witness ==
  /\ Ended
  /\ Len(syscalls) = 2
  /\ ExecvFailed

\* C9: under fair scheduling every run of main ends, replaced by the target
\* or aborted, having requested at most two system calls.
C9_Terminates ==
  <>(/\ Ended
     /\ status \in {"replaced", "aborted"}
     /\ Len(syscalls) <= 2)

\* C9 witness: main has ended after both system calls.
C9_Witness ==
  /\ Ended
  /\ Len(syscalls) = 2
  /\ status = "aborted"
  /\ Len(argv) = MaxArgc

\* The environments in which setuid(0) succeeds: a function of the starting
\* credentials and the sandbox alone.
CanBecomeRoot(e) ==
  /\ ~e.setuidDenied
  /\ ROOT \in {StartCred(e).ruid, StartCred(e).euid, StartCred(e).suid}

\* C10: the result of the first call, setuid, is decided by the environment
\* alone, whatever the arguments.  With no target path and a setuid that
\* succeeds, the identity is already 0 when the execv is requested, the
\* execv fails, and main ends aborted with the single report prefixed
\* "execl"; with a setuid that fails, the single report is prefixed "setuid"
\* whether or not a target path was given.
C10_SetuidBeforeArguments ==
  /\ Len(syscalls) >= 1 =>
       /\ syscalls[1].call = "setuid"
       /\ syscalls[1].ret = 0 <=> CanBecomeRoot(env)
  /\ (Len(argv) = 1 /\ CanBecomeRoot(env) /\ pc \notin {"setuid"}) =>
       /\ cred.euid = ROOT
       /\ pc # "execv" =>
            /\ Len(syscalls) = 2
            /\ syscalls[2].call = "execv" /\ syscalls[2].euid = ROOT
            /\ syscalls[2].ret < 0
       /\ Ended => /\ status = "aborted"
                   /\ stderr = <<[prefix |-> "execl", err |-> "EFAULT"]>>
  /\ (~CanBecomeRoot(env) /\ Ended) =>
       /\ status = "aborted"
       /\ Len(stderr) = 1 /\ stderr[1].prefix = "setuid"

\* C10 witness: no target path, setuid succeeded for a non-root invoker, and
\* main has ended after the execv.
C10_Witness ==
  /\ Ended
  /\ Len(argv) = 1
  /\ env.invoker # ROOT
  /\ cred.ruid = ROOT
  /\ Len(syscalls) = 2

====
